---- MODULE Spec2Model ----
(***************************************************************************)
(* Optishelf Agent: the Express server's session authentication, question  *)
(* and survey routes, the conjoint price matrix and the consumer survey    *)
(* page, as state machines over the database tables they read and write.   *)
(***************************************************************************)
EXTENDS Integers, Sequences, FiniteSets, TLC

\* ------------------------------------------------------------------ bounds
MaxUsers == 2
MaxQuestions == 2
MaxVariants == 1
MaxRespondents == 1
MaxProducts == 2
MaxPersonas == 2
MaxConfigs == 1
BigProducts == 7
MaxPrice == 7
MaxSurveyQuestions == 2

\* ------------------------------------------------------- program constants
MinPriceLevels == 2
MaxPriceLevels == 5
DefaultPriceLevels == 3
MaxProductsToShow == 6
MinCombinations == 5
SecondsPerCombination == 30

\* ------------------------------------------------------------------ values
NoUser == 0
Null == -1
AdminName == "admin@example.com"
AdminPassword == "888888"
OtherName == "test@example.com"
BadName == "not-an-email"
WrongPassword == "wrongpassword"
ShortPassword == "short"
Usernames == {AdminName, OtherName, BadName}
Passwords == {AdminPassword, WrongPassword, ShortPassword}
TheShelf == 1
NoShelf == 2
ShelfOwner == 1

Range(s) == {s[i] : i \in 1..Len(s)}

RECURSIVE SumRange(_, _, _)
SumRange(s, lo, hi) ==
  IF lo > hi THEN 0
  ELSE IF lo = hi THEN s[lo]
  ELSE SumRange(s, lo, (lo + hi) \div 2) + SumRange(s, ((lo + hi) \div 2) + 1, hi)
SumSeq(s) == SumRange(s, 1, Len(s))

RECURSIVE Flatten(_)
Flatten(ss) == IF ss = <<>> THEN <<>> ELSE ss[1] \o Flatten(Tail(ss))

RECURSIVE Power(_, _)
Power(b, e) == IF e = 0 THEN 1 ELSE b * Power(b, e - 1)

Min(a, b) == IF a < b THEN a ELSE b
Max(a, b) == IF a > b THEN a ELSE b
CeilHalf(n) == (n + 1) \div 2

\* ------------------------------------------------------- price arithmetic
\* JavaScript `x || y`: null and 0 are both falsy.
Falsy(x) == x = Null \/ x = 0
OrElse(x, y) == IF Falsy(x) THEN y ELSE x

\* Math.round(num / den) for den > 0: round half up, floor(num/den + 1/2).
RoundDiv(num, den) == (2 * num + den) \div (2 * den)

LowPriceOf(product) == OrElse(product.lowPrice, RoundDiv(8 * product.listPrice, 10))
HighPriceOf(product) == OrElse(product.highPrice, RoundDiv(12 * product.listPrice, 10))

generatePriceMatrix(product, priceLevels) ==
  LET lowPrice == LowPriceOf(product)
      highPrice == HighPriceOf(product)
      listPrice == product.listPrice
  IN CASE priceLevels = 2 -> <<lowPrice, highPrice>>
       [] priceLevels = 3 -> <<lowPrice, listPrice, highPrice>>
       [] priceLevels = 4 ->
            <<lowPrice,
              RoundDiv(2 * lowPrice + (listPrice - lowPrice), 2),
              RoundDiv(2 * listPrice + (highPrice - listPrice), 2),
              highPrice>>
       [] priceLevels = 5 ->
            <<lowPrice,
              RoundDiv(3 * lowPrice + (listPrice - lowPrice), 3),
              RoundDiv(3 * lowPrice + 2 * (listPrice - lowPrice), 3),
              RoundDiv(3 * listPrice + (highPrice - listPrice), 3),
              RoundDiv(3 * listPrice + 2 * (highPrice - listPrice), 3),
              highPrice>>
       [] OTHER -> <<lowPrice, listPrice, highPrice>>

\* generateCombinations of generateConjointMatrix: depth-first over the products,
\* one branch per price of the product at `index` (1-based here).
RECURSIVE generateCombinations(_, _, _)
generateCombinations(productPrices, current, index) ==
  IF index = Len(productPrices) + 1
  THEN <<current>>
  ELSE LET product == productPrices[index]
       IN Flatten([k \in 1..Len(product.prices) |->
            generateCombinations(
              productPrices,
              Append(current, [id |-> product.id, currentPrice |-> product.prices[k]]),
              index + 1)])

generateConjointMatrixSkippingLast(productsData, priceLevels) ==
  LET productPrices ==
        [i \in 1..(Len(productsData) - 1) |->
          [id |-> productsData[i].id,
           prices |-> generatePriceMatrix(productsData[i], priceLevels)]]
  IN generateCombinations(productPrices, <<>>, 1)

generateConjointMatrix(productsData, priceLevels) ==
  LET productPrices ==
        [i \in 1..Len(productsData) |->
          [id |-> productsData[i].id,
           prices |-> generatePriceMatrix(productsData[i], priceLevels)]]
  IN generateCombinations(productPrices, <<>>, 1)

\* --------------------------------------------------------------- variables
VARIABLES
  users,          \* users table: rows in insertion order, id = position
  session,        \* the browser session's logged-in user id, or NoUser
  questions,      \* questions table
  shelfQuestions, \* shelf_questions rows of TheShelf: question ids
  products,       \* products table
  shelfProducts,  \* shelf_products rows of TheShelf: product ids
  shelfPersonas,  \* shelf_personas rows of TheShelf: persona ids
  configs,        \* conjoint_configurations rows of TheShelf
  variants,       \* shelf_variants table
  respondents,    \* respondents table
  responses,      \* responses table
  sim,            \* the last simulation run: what it read, generated and asked
  resp,           \* the last HTTP response
  page,           \* the client page in use: SurveyPage's fetched survey and
                  \* component state, or the price dialog's submitted form
  calc            \* the price calculation under test: input and result

authVars == <<users, session>>
shelfVars == <<products, shelfProducts, shelfPersonas, configs>>
surveyVars == <<variants, respondents, responses, sim>>
dbVars == <<users, questions, shelfQuestions, products, shelfProducts, shelfPersonas,
            configs, variants, respondents, responses>>
vars == <<users, session, questions, shelfQuestions, products, shelfProducts,
          shelfPersonas, configs, variants, respondents, responses, sim, resp,
          page, calc>>

\* ------------------------------------------------------------ HTTP plumbing
NoResponse == [op |-> "none", req |-> <<>>, authed |-> FALSE, status |-> 0, body |-> <<>>,
               json |-> FALSE, data |-> <<>>]
NoPage == [loaded |-> FALSE]
NoCalc == [done |-> FALSE]
NoSim == [ran |-> FALSE]

\* res.status(status).send(body) or res.json(data), kept with the request's
\* inputs; `authed` is whether passport resolved the request's session to req.user.
Reply(op, req, authed, status, body, json, data) ==
  resp' = [op |-> op, req |-> req, authed |-> authed, status |-> status,
           body |-> body, json |-> json, data |-> data]

\* passport.session(): req.user is the session's user when the request carries
\* the session cookie and deserializeUser finds the row.
ReqUser(cookie) ==
  IF cookie /\ session # NoUser /\ session \in 1..Len(users) THEN session ELSE NoUser

\* ------------------------------------------------------------------- auth
IsEmail(u) == u # BadName
LongEnough(p) == p # ShortPassword

\* crypto.hash: "<scrypt(password, salt)>.<salt>"
Hash(p) == [hash |-> p, salt |-> "salt"]
EmptyPassword == [hash |-> "", salt |-> ""]

\* crypto.compare: split on ".", scrypt the supplied password with the stored salt.
\* A stored "" has no salt and scrypt throws.
Compare(supplied, stored) ==
  IF stored.salt = "" THEN "throws"
  ELSE IF stored.hash = supplied THEN "match" ELSE "mismatch"

ActiveUsersNamed(u) ==
  {i \in 1..Len(users) : users[i].username = u /\ users[i].status = "ACTIVE"}
UsersNamed(u) == {i \in 1..Len(users) : users[i].username = u}
FirstUserNamed(u) == CHOOSE i \in UsersNamed(u) : \A j \in UsersNamed(u) : i <= j

ValidationMessage(u, p, emailMessage) ==
  IF ~IsEmail(u) /\ ~LongEnough(p)
    THEN <<emailMessage, "Password must be at least 6 characters">>
  ELSE IF ~IsEmail(u) THEN <<emailMessage>>
  ELSE <<"Password must be at least 6 characters">>

PublicUser(i) == [id |-> users[i].id, username |-> users[i].username]

\* POST /api/register
Register(cookie, u, p) ==
  /\ IF ~(IsEmail(u) /\ LongEnough(p))
       THEN /\ Reply("register", [u |-> u, p |-> p], ReqUser(cookie) # NoUser, 400,
                     ValidationMessage(u, p, "Please enter a valid email address"),
                     FALSE, <<>>)
            /\ UNCHANGED authVars
     ELSE IF UsersNamed(u) # {}
       THEN /\ Reply("register", [u |-> u, p |-> p], ReqUser(cookie) # NoUser, 400,
                     <<"Email already exists">>, FALSE, <<>>)
            /\ UNCHANGED authVars
     ELSE /\ Len(users) < MaxUsers
          /\ users' = Append(users, [id |-> Len(users) + 1, username |-> u,
                                      password |-> Hash(p), status |-> "ACTIVE"])
          /\ session' = Len(users) + 1
          /\ Reply("register", [u |-> u, p |-> p], ReqUser(cookie) # NoUser, 200,
                   <<"Registration successful">>, TRUE,
                   <<[id |-> Len(users) + 1, username |-> u]>>)
  /\ UNCHANGED <<questions, shelfQuestions, shelfVars, surveyVars, page, calc>>

\* The LocalStrategy verify callback: the outcome handed to done(...).
InvalidCredentialsUnknownUser == "Invalid credentials."
InvalidCredentialsWrongPassword == "Invalid credentials."

LocalStrategy(u, p) ==
  IF UsersNamed(u) = {}
    THEN [err |-> FALSE, user |-> NoUser, message |-> InvalidCredentialsUnknownUser]
  ELSE LET user == users[FirstUserNamed(u)]
           isMatch == Compare(p, user.password)
       IN CASE isMatch = "throws" -> [err |-> TRUE, user |-> NoUser, message |-> ""]
            [] isMatch = "mismatch" ->
                 [err |-> FALSE, user |-> NoUser,
                  message |-> InvalidCredentialsWrongPassword]
            [] OTHER -> [err |-> FALSE, user |-> user.id, message |-> ""]

LoginFailureStatus == 401

\* POST /api/login
Login(cookie, u, p) ==
  /\ IF ~(IsEmail(u) /\ LongEnough(p))
       THEN /\ Reply("login", [u |-> u, p |-> p], ReqUser(cookie) # NoUser, 400,
                     ValidationMessage(u, p, "Invalid email format"), FALSE, <<>>)
            /\ UNCHANGED session
     ELSE LET done == LocalStrategy(u, p)
          IN IF done.err
               THEN /\ Reply("login", [u |-> u, p |-> p], ReqUser(cookie) # NoUser, 500,
                             <<"Internal Server Error">>, FALSE, <<>>)
                    /\ UNCHANGED session
             ELSE IF done.user = NoUser
               THEN /\ Reply("login", [u |-> u, p |-> p], ReqUser(cookie) # NoUser, LoginFailureStatus,
                             <<done.message>>, FALSE, <<>>)
                    /\ UNCHANGED session
             ELSE /\ session' = done.user
                  /\ Reply("login", [u |-> u, p |-> p], ReqUser(cookie) # NoUser, 200,
                           <<"Login successful">>, TRUE, <<PublicUser(done.user)>>)
  /\ UNCHANGED <<users, questions, shelfQuestions, shelfVars, surveyVars, page, calc>>

\* POST /api/logout
\* req.logout(): the session of the request's cookie, if it carries one, loses
\* its user.
SessionKeptAtLogout(cookie) == session
SessionAfterLogout(cookie) == IF cookie THEN NoUser ELSE session

Logout(cookie) ==
  /\ session' = SessionAfterLogout(cookie)
  /\ Reply("logout", [cookie |-> cookie], ReqUser(cookie) # NoUser, 200,
           <<"Logout successful">>, TRUE, <<>>)
  /\ UNCHANGED <<users, questions, shelfQuestions, shelfVars, surveyVars, page, calc>>

\* GET /api/user
\* const { password, ...userWithoutPassword } = req.user
WithPassword(user) == user
WithoutPassword(user) == [f \in DOMAIN user \ {"password"} |-> user[f]]

GetUser(cookie) ==
  /\ IF ReqUser(cookie) # NoUser
       THEN Reply("user", [cookie |-> cookie], TRUE, 200, <<>>, TRUE,
                  <<WithoutPassword(users[ReqUser(cookie)])>>)
       ELSE Reply("user", [cookie |-> cookie], FALSE, 401, <<"Not logged in">>,
                  FALSE, <<>>)
  /\ UNCHANGED <<authVars, questions, shelfQuestions, shelfVars, surveyVars, page, calc>>

\* ------------------------------------------------------------ user routes
\* GET /api/users
GetUsers(cookie) ==
  /\ Reply("users.list", <<>>, ReqUser(cookie) # NoUser, 200, <<>>, TRUE, users)
  /\ UNCHANGED <<authVars, questions, shelfQuestions, shelfVars, surveyVars, page, calc>>

\* POST /api/users
CreateUser(cookie, u) ==
  /\ IF UsersNamed(u) # {}
       THEN /\ Reply("users.create", [u |-> u], ReqUser(cookie) # NoUser, 400,
                     <<"User already exists">>, FALSE, <<>>)
            /\ UNCHANGED users
     ELSE /\ Len(users) < MaxUsers
          /\ users' = Append(users, [id |-> Len(users) + 1, username |-> u,
                                      password |-> EmptyPassword, status |-> "PENDING"])
          /\ Reply("users.create", [u |-> u], ReqUser(cookie) # NoUser, 200, <<>>, TRUE,
                   <<[id |-> Len(users) + 1, username |-> u, status |-> "PENDING"]>>)
  /\ UNCHANGED <<session, questions, shelfQuestions, shelfVars, surveyVars, page, calc>>

\* POST /api/users/:id/suspend
SuspendUser(cookie, id) ==
  /\ IF id \in 1..Len(users)
       THEN /\ users' = [users EXCEPT ![id].status = "SUSPENDED"]
            /\ Reply("users.suspend", [id |-> id], ReqUser(cookie) # NoUser, 200, <<>>, TRUE,
                     <<users'[id]>>)
       ELSE /\ Reply("users.suspend", [id |-> id], ReqUser(cookie) # NoUser, 404,
                     <<"User not found">>, FALSE, <<>>)
            /\ UNCHANGED users
  /\ UNCHANGED <<session, questions, shelfQuestions, shelfVars, surveyVars, page, calc>>

\* -------------------------------------------------------- question routes
ActiveQuestions == SelectSeq(questions, LAMBDA q : q.status = "ACTIVE")

\* GET /api/questions
GetQuestions(cookie) ==
  /\ IF ReqUser(cookie) = NoUser
       THEN Reply("questions.list", <<>>, FALSE, 401, <<"Unauthorized">>, FALSE, <<>>)
       ELSE Reply("questions.list", <<>>, TRUE, 200, <<>>, TRUE, ActiveQuestions)
  /\ UNCHANGED <<authVars, questions, shelfQuestions, shelfVars, surveyVars, page, calc>>

\* POST /api/questions
CreateQuestion(cookie, text) ==
  /\ IF ReqUser(cookie) = NoUser
       THEN /\ Reply("questions.create", [text |-> text], FALSE, 401, <<"Unauthorized">>, FALSE, <<>>)
            /\ UNCHANGED questions
       ELSE /\ Len(questions) < MaxQuestions
            /\ questions' = Append(questions, [id |-> Len(questions) + 1,
                                                question |-> text, status |-> "ACTIVE"])
            /\ Reply("questions.create", [text |-> text], TRUE, 200, <<>>, TRUE,
                     <<questions'[Len(questions')]>>)
  /\ UNCHANGED <<authVars, shelfQuestions, shelfVars, surveyVars, page, calc>>

\* PUT /api/questions/:id
UpdateQuestion(cookie, id, text) ==
  /\ IF ReqUser(cookie) = NoUser
       THEN /\ Reply("questions.update", [id |-> id, text |-> text], FALSE, 401, <<"Unauthorized">>, FALSE, <<>>)
            /\ UNCHANGED questions
     ELSE IF id \in 1..Len(questions)
       THEN /\ questions' = [questions EXCEPT ![id].question = text]
            /\ Reply("questions.update", [id |-> id, text |-> text], TRUE, 200, <<>>, TRUE, <<questions'[id]>>)
     ELSE /\ Reply("questions.update", [id |-> id, text |-> text], TRUE, 404, <<"Question not found">>, FALSE, <<>>)
          /\ UNCHANGED questions
  /\ UNCHANGED <<authVars, shelfQuestions, shelfVars, surveyVars, page, calc>>

SoftDelete(qs, id) == [qs EXCEPT ![id].status = "DELETED"]

\* DELETE /api/questions/:id
DeleteQuestion(cookie, id) ==
  /\ IF ReqUser(cookie) = NoUser
       THEN /\ Reply("questions.delete", [id |-> id], FALSE, 401, <<"Unauthorized">>, FALSE, <<>>)
            /\ UNCHANGED questions
     ELSE IF id \in 1..Len(questions)
       THEN /\ questions' = SoftDelete(questions, id)
            /\ Reply("questions.delete", [id |-> id], TRUE, 200,
                     <<"Question deleted successfully">>, TRUE, <<>>)
     ELSE /\ Reply("questions.delete", [id |-> id], TRUE, 404, <<"Question not found">>, FALSE, <<>>)
          /\ UNCHANGED questions
  /\ UNCHANGED <<authVars, shelfQuestions, shelfVars, surveyVars, page, calc>>

\* A shelf_questions row: the Shelf <-> Questions relation of the data model.
LinkShelfQuestion(id) ==
  /\ id \in 1..Len(questions)
  /\ questions[id].status = "ACTIVE"
  /\ id \notin Range(shelfQuestions)
  /\ shelfQuestions' = Append(shelfQuestions, id)
  /\ resp' = NoResponse
  /\ UNCHANGED <<authVars, questions, shelfVars, surveyVars, page, calc>>

\* ------------------------------------------- shelf, product, persona lists
PersonaIds == 1..MaxPersonas
\* personas.questions: the question snapshot stored with each persona.
PersonaQuestions(p) == IF p = 1 THEN <<1>> ELSE <<1, p>>

ProductIds == {products[i].id : i \in 1..Len(products)}
ProductById(id) == products[CHOOSE i \in 1..Len(products) : products[i].id = id]

\* GET /api/shelves
GetShelves(cookie) ==
  /\ IF ReqUser(cookie) = NoUser
       THEN Reply("shelves.list", <<>>, FALSE, 401, <<"Unauthorized">>, FALSE, <<>>)
       ELSE Reply("shelves.list", <<>>, TRUE, 200, <<>>, TRUE,
                  IF ReqUser(cookie) = ShelfOwner
                    THEN <<[id |-> TheShelf, products |-> shelfProducts,
                            personas |-> shelfPersonas]>>
                    ELSE <<>>)
  /\ UNCHANGED <<authVars, questions, shelfQuestions, shelfVars, surveyVars, page, calc>>

\* A JavaScript number of a request or a response (a dollar amount, or the
\* integer the dialog computes) is kept with three decimals, as its
\* thousandths: 19.99 is 19990.  Database columns are integers.
Thousandths(n) == 1000 * n
\* Math.round(x * 100) of such a number
RoundTimes100(x) == RoundDiv(100 * x, 1000)
\* x / 100 of an integer column
Over100(x) == 10 * x

\* Convert prices from cents to dollars for response:
\* listPrice / 100, lowPrice ? lowPrice / 100 : null, the same for highPrice.
InDollars(product) ==
  [product EXCEPT
     !.listPrice = Over100(product.listPrice),
     !.lowPrice = IF Falsy(product.lowPrice) THEN Null ELSE Over100(product.lowPrice),
     !.highPrice = IF Falsy(product.highPrice) THEN Null ELSE Over100(product.highPrice)]

\* GET /api/products
GetProducts(cookie) ==
  /\ IF ReqUser(cookie) = NoUser
       THEN Reply("products.list", <<>>, FALSE, 401, <<"Unauthorized">>, FALSE, <<>>)
       ELSE Reply("products.list", <<>>, TRUE, 200, <<>>, TRUE,
                  [i \in 1..Len(products) |-> InDollars(products[i])])
  /\ UNCHANGED <<authVars, questions, shelfQuestions, shelfVars, surveyVars, page, calc>>

\* POST /api/products, as the product form posts it: listPrice in dollars and
\* no lowPrice, highPrice or priceLevels.
CreateProduct(cookie, listPrice) ==
  /\ IF ReqUser(cookie) = NoUser
       THEN /\ Reply("products.create", [listPrice |-> listPrice], FALSE, 401,
                     <<"Unauthorized">>, FALSE, <<>>)
            /\ UNCHANGED products
       ELSE \E product \in {[id |-> Len(products) + 1,
                             listPrice |-> RoundTimes100(listPrice),
                             lowPrice |-> Null, highPrice |-> Null,
                             priceLevels |-> Null]} :
              /\ Len(products) < MaxProducts
              /\ products' = Append(products, product)
              /\ Reply("products.create", [listPrice |-> listPrice], TRUE, 200, <<>>,
                       TRUE, <<InDollars(product)>>)
  /\ UNCHANGED <<authVars, questions, shelfQuestions, shelfProducts, shelfPersonas,
                 configs, surveyVars, page, calc>>

\* priceConfigSchema of the dialog: handleSubmit calls the mutation only with a
\* form that passes it.
ValidPriceConfigForm(form) ==
  /\ form.lowPrice >= 0 /\ form.highPrice >= 0
  /\ form.priceLevels >= MinPriceLevels /\ form.priceLevels <= MaxPriceLevels
  /\ form.highPrice > form.lowPrice

\* The body updateProductPriceMutation posts for a form in dollars.
PriceConfigBody(form) ==
  [lowPrice |-> Thousandths(RoundTimes100(form.lowPrice)),
   highPrice |-> Thousandths(RoundTimes100(form.highPrice)),
   priceLevels |-> form.priceLevels]

\* POST /api/products/:id/price-config
PostPriceConfig(cookie, productId, body) ==
  LET req == [productId |-> productId, lowPrice |-> body.lowPrice,
              highPrice |-> body.highPrice, priceLevels |-> body.priceLevels]
  IN /\ IF ReqUser(cookie) = NoUser
          THEN /\ Reply("products.priceConfig", req, FALSE, 401, <<"Unauthorized">>,
                        FALSE, <<>>)
               /\ UNCHANGED products
        ELSE IF Falsy(body.lowPrice) \/ Falsy(body.highPrice) \/ Falsy(body.priceLevels)
          THEN /\ Reply("products.priceConfig", req, TRUE, 400,
                        <<"Missing required fields">>, FALSE, <<>>)
               /\ UNCHANGED products
        ELSE IF body.lowPrice >= body.highPrice
          THEN /\ Reply("products.priceConfig", req, TRUE, 400,
                        <<"High price must be greater than low price">>, FALSE, <<>>)
               /\ UNCHANGED products
        ELSE IF body.priceLevels < MinPriceLevels \/ body.priceLevels > MaxPriceLevels
          THEN /\ Reply("products.priceConfig", req, TRUE, 400,
                        <<"Price levels must be between 2 and 5">>, FALSE, <<>>)
               /\ UNCHANGED products
        ELSE IF productId \notin ProductIds
          THEN /\ Reply("products.priceConfig", req, TRUE, 404,
                        <<"Product not found">>, FALSE, <<>>)
               /\ UNCHANGED products
        ELSE /\ products' = [products EXCEPT
                  ![productId].lowPrice = RoundTimes100(body.lowPrice),
                  ![productId].highPrice = RoundTimes100(body.highPrice),
                  ![productId].priceLevels = body.priceLevels]
             /\ Reply("products.priceConfig", req, TRUE, 200, <<>>, TRUE,
                      <<InDollars(products'[productId])>>)
     /\ UNCHANGED <<authVars, questions, shelfQuestions, shelfProducts, shelfPersonas,
                    configs, surveyVars, calc>>

\* The price-configuration dialog is submitted with `form`: the dollars entered
\* for the low and the high price, and the number of levels.
SubmitPriceConfig(cookie, productId, form) ==
  /\ ValidPriceConfigForm(form)
  /\ page' = [loaded |-> FALSE, priceConfigForm |-> form]
  /\ PostPriceConfig(cookie, productId, PriceConfigBody(form))

\* GET /api/panelists/:type
GetPanelists(cookie, type) ==
  /\ IF ReqUser(cookie) = NoUser
       THEN Reply("personas.list", [type |-> type], FALSE, 401, <<"Unauthorized">>, FALSE, <<>>)
     ELSE IF type \notin {"synthetic", "human"}
       THEN Reply("personas.list", [type |-> type], TRUE, 400, <<"Invalid panelist type">>, FALSE, <<>>)
     ELSE IF type = "synthetic"
       THEN Reply("personas.list", [type |-> type], TRUE, 200, <<>>, TRUE,
                  IF ReqUser(cookie) = ShelfOwner
                    THEN [p \in PersonaIds |-> [id |-> p, type |-> "SYNTHETIC"]]
                    ELSE <<>>)
     ELSE Reply("personas.list", [type |-> type], TRUE, 200, <<>>, TRUE,
                SelectSeq(respondents,
                          LAMBDA r : r.type = "HUMAN" /\ r.demographics))
  /\ UNCHANGED <<authVars, questions, shelfQuestions, shelfVars, surveyVars, page, calc>>

\* ---------------------------------------------------------- survey routes
VariantIds == 1..Len(variants)

\* productsData of a shelf: one entry per shelf_products row, in row order.
ShelfProductsData == [i \in 1..Len(shelfProducts) |-> ProductById(shelfProducts[i])]

\* POST /api/shelves/:id/create-survey
CreateSurvey(cookie, shelfId) ==
  /\ IF ReqUser(cookie) = NoUser
       THEN /\ Reply("survey.create", [shelfId |-> shelfId], FALSE, 401, <<"Unauthorized">>, FALSE, <<>>)
            /\ UNCHANGED variants
     ELSE IF shelfId # TheShelf
       THEN /\ Reply("survey.create", [shelfId |-> shelfId], TRUE, 404, <<"Shelf not found">>, FALSE, <<>>)
            /\ UNCHANGED variants
     ELSE IF ShelfOwner # ReqUser(cookie)
       THEN /\ Reply("survey.create", [shelfId |-> shelfId], TRUE, 403, <<"Unauthorized">>, FALSE, <<>>)
            /\ UNCHANGED variants
     ELSE /\ Len(variants) < MaxVariants
          /\ variants' = Append(variants,
                [id |-> Len(variants) + 1, shelfId |-> shelfId,
                 productLineup |-> [i \in 1..Len(shelfProducts) |->
                    [productId |-> ShelfProductsData[i].id,
                     price |-> ShelfProductsData[i].listPrice]]])
          /\ Reply("survey.create", [shelfId |-> shelfId], TRUE, 200, <<>>, TRUE,
                   <<[surveyId |-> Len(variants) + 1]>>)
  /\ UNCHANGED <<authVars, questions, shelfQuestions, shelfVars, respondents,
                 responses, sim, page, calc>>

\* [...].filter((q, index, self) => index === self.findIndex(t => t.id === q.id))
Dedupe(qs) == SelectSeq([i \in 1..Len(qs) |-> [q |-> qs[i], first |->
                  \A j \in 1..(i - 1) : qs[j] # qs[i]]], LAMBDA e : e.first)

\* demographicQuestions: every shelf persona's question snapshot, as demo_<id>.
DemographicQuestions ==
  LET all == Flatten([i \in 1..Len(shelfPersonas) |->
                [k \in 1..Len(PersonaQuestions(shelfPersonas[i])) |->
                  [kind |-> "demo", id |-> PersonaQuestions(shelfPersonas[i])[k]]]])
      kept == Dedupe(all)
  IN [i \in 1..Len(kept) |-> kept[i].q]

\* shelfQuestions: variant.shelf.questions.map(sq => sq.question ...)
SurveyShelfQuestions ==
  [i \in 1..Len(shelfQuestions) |-> [kind |-> "shelf", id |-> shelfQuestions[i]]]

SurveyQuestions == DemographicQuestions \o SurveyShelfQuestions

\* Products named by a variant's lineup, as the products query returns them.
LineupProducts(variant) ==
  SelectSeq(products, LAMBDA pr :
    \E i \in 1..Len(variant.productLineup) : variant.productLineup[i].productId = pr.id)

\* shelf.conjointConfiguration?.priceLevels || 3 for one of the shelf's rows.
PriceLevelsDefaultingToTwo(config) == OrElse(config.priceLevels, MinPriceLevels)
PriceLevelsOf(config) == OrElse(config.priceLevels, DefaultPriceLevels)
NoConfig == [priceLevels |-> Null, combinationCount |-> 0, estimatedDuration |-> 0]
ConfigChoices == IF configs = <<>> THEN {NoConfig} ELSE Range(configs)

numProductsToShow(n) == Min(MaxProductsToShow, n)
numCombinations(n) == Max(MinCombinations, CeilHalf(n))

\* One shuffled, sliced lineup with one price per product; `turn` and `pick`
\* stand for the Math.random() draws of combination i.
SurveyCombination(productsWithPrices, turn, pick, i) ==
  LET n == Len(productsWithPrices)
      shuffled == [j \in 1..n |-> productsWithPrices[((j - 1 + turn + i) % n) + 1]]
      shown == SubSeq(shuffled, 1, numProductsToShow(n))
  IN [id |-> i,
      options |-> [j \in 1..Len(shown) |->
         [productId |-> shown[j].id,
          price |-> shown[j].prices[((pick + i + j) % Len(shown[j].prices)) + 1]]]]

\* GET /api/survey/:id
GetSurvey(cookie, surveyId, turn, pick) ==
  /\ IF surveyId \notin VariantIds
       THEN Reply("survey.get", [surveyId |-> surveyId], ReqUser(cookie) # NoUser, 404,
                  <<"Survey not found">>, FALSE, <<>>)
       ELSE \E config \in ConfigChoices :
              LET productsData == LineupProducts(variants[surveyId])
                  priceLevels == PriceLevelsOf(config)
                  productsWithPrices ==
                    [i \in 1..Len(productsData) |->
                      [id |-> productsData[i].id,
                       prices |-> generatePriceMatrix(productsData[i], priceLevels)]]
              IN Reply("survey.get", [surveyId |-> surveyId], ReqUser(cookie) # NoUser, 200, <<>>, TRUE,
                   <<[questions |-> SurveyQuestions,
                      productCombinations |->
                        [i \in 1..numCombinations(Len(productsWithPrices)) |->
                          SurveyCombination(productsWithPrices, turn, pick, i)]]>>)
  /\ UNCHANGED <<authVars, questions, shelfQuestions, shelfVars, surveyVars, page, calc>>

\* db.insert(responses).values([...]): throws on an empty list, on a null
\* selected_product_id (NOT NULL) and on a foreign key with no row.
ResponsesInsertable(surveyId, selections) ==
  /\ selections # <<>>
  /\ surveyId \in VariantIds
  /\ \A i \in 1..Len(selections) : selections[i] \in ProductIds

RespondentAsPersona(id, hasAnswers) ==
  [id |-> id, type |-> "SYNTHETIC", personaId |-> 1, demographics |-> hasAnswers]
HumanRespondent(id, hasAnswers) ==
  [id |-> id, type |-> "HUMAN", personaId |-> Null, demographics |-> hasAnswers]

\* POST /api/survey/:id/submit
SubmitRequest(surveyId, hasDemographics, selections) ==
  [surveyId |-> surveyId, hasDemographics |-> hasDemographics, selections |-> selections]

SubmitSurvey(cookie, surveyId, hasDemographics, selections) ==
  /\ IF ~hasDemographics
       THEN \* Object.entries(undefined) throws before any insert
            /\ Reply("survey.submit", SubmitRequest(surveyId, hasDemographics, selections), ReqUser(cookie) # NoUser, 500,
                     <<"Error submitting survey response">>, FALSE, <<>>)
            /\ UNCHANGED <<respondents, responses>>
       ELSE /\ Len(respondents) < MaxRespondents
            /\ respondents' = Append(respondents,
                                     HumanRespondent(Len(respondents) + 1, TRUE))
            /\ IF ResponsesInsertable(surveyId, selections)
                 THEN /\ responses' = responses \o
                           [i \in 1..Len(selections) |->
                             [respondentId |-> Len(respondents) + 1,
                              shelfVariantId |-> surveyId,
                              selectedProductId |-> selections[i]]]
                      /\ Reply("survey.submit", SubmitRequest(surveyId, hasDemographics, selections), ReqUser(cookie) # NoUser, 200,
                               <<"Survey responses recorded successfully">>, TRUE, <<>>)
                 ELSE /\ UNCHANGED responses
                      /\ Reply("survey.submit", SubmitRequest(surveyId, hasDemographics, selections), ReqUser(cookie) # NoUser, 500,
                               <<"Error submitting survey response">>, FALSE, <<>>)
  /\ UNCHANGED <<authVars, questions, shelfQuestions, shelfVars, variants, sim,
                 page, calc>>

\* GET /api/survey-runs: the newest variant of each shelf and day.
GetSurveyRuns(cookie) ==
  /\ Reply("runs.list", <<>>, ReqUser(cookie) # NoUser, 200, <<>>, TRUE,
           IF variants = <<>> THEN <<>>
           ELSE <<[id |-> Len(variants), shelfId |-> variants[Len(variants)].shelfId]>>)
  /\ UNCHANGED <<authVars, questions, shelfQuestions, shelfVars, surveyVars, page, calc>>

ResponsesOfVariants(ids) == SelectSeq(responses, LAMBDA r : r.shelfVariantId \in ids)

\* GET /api/survey-runs/:runId/analysis
GetRunAnalysis(cookie, runId) ==
  /\ IF runId \notin VariantIds
       THEN Reply("runs.analysis", [runId |-> runId], ReqUser(cookie) # NoUser, 404,
                  <<"Survey run not found">>, FALSE, <<>>)
       ELSE LET sameRun == {v \in VariantIds : variants[v].shelfId = variants[runId].shelfId}
                rows == ResponsesOfVariants(sameRun)
            IN Reply("runs.analysis", [runId |-> runId], ReqUser(cookie) # NoUser, 200, <<>>, TRUE,
                 <<[totalResponses |-> Len(rows),
                    byProduct |-> [i \in 1..Len(LineupProducts(variants[runId])) |->
                       [productId |-> LineupProducts(variants[runId])[i].id,
                        responses |-> Len(SelectSeq(rows, LAMBDA r :
                           r.selectedProductId = LineupProducts(variants[runId])[i].id))]]]>>)
  /\ UNCHANGED <<authVars, questions, shelfQuestions, shelfVars, surveyVars, page, calc>>

\* GET /api/survey-runs/:runId/details
GetRunDetails(cookie, runId) ==
  /\ IF runId \notin VariantIds
       THEN Reply("runs.details", [runId |-> runId], ReqUser(cookie) # NoUser, 404,
                  <<"Survey run not found">>, FALSE, <<>>)
       ELSE LET rows == ResponsesOfVariants({runId})
            IN Reply("runs.details", [runId |-> runId], ReqUser(cookie) # NoUser, 200, <<>>, TRUE,
                 [i \in 1..Len(rows) |->
                   [persona |-> respondents[rows[i].respondentId].personaId,
                    selectedProduct |-> rows[i].selectedProductId,
                    productLineup |-> variants[runId].productLineup]])
  /\ UNCHANGED <<authVars, questions, shelfQuestions, shelfVars, surveyVars, page, calc>>

\* ------------------------------------------------- conjoint configuration
\* Math.pow(priceLevels, shelf.products.length), server side
CombinationCount(priceLevels, productCount) == Power(priceLevels, productCount)
\* Math.pow(form.watch("priceLevels"), shelfData?.products?.length || 0), the
\* figure the configuration page displays
DisplayedCombinationCount(priceLevels, productCount) == Power(priceLevels, productCount)

\* The conjoint_configurations row saved for a shelf of productCount products.
ConfigRow(priceLevels, productCount) ==
  LET combinationCount == CombinationCount(priceLevels, productCount)
  IN [priceLevels |-> priceLevels,
      combinationCount |-> combinationCount,
      estimatedDuration |-> combinationCount * SecondsPerCombination]

ConfigRequest(shelfId, priceLevels) == [shelfId |-> shelfId, priceLevels |-> priceLevels]

\* POST /api/shelves/:id/conjoint-configuration
SaveConjointConfiguration(cookie, shelfId, priceLevels) ==
  /\ IF ReqUser(cookie) = NoUser
       THEN /\ Reply("config.save", ConfigRequest(shelfId, priceLevels), FALSE, 401,
                     <<"Unauthorized">>, FALSE, <<>>)
            /\ UNCHANGED configs
     ELSE IF Falsy(priceLevels) \/ priceLevels < MinPriceLevels \/ priceLevels > MaxPriceLevels
       THEN /\ Reply("config.save", ConfigRequest(shelfId, priceLevels), TRUE, 400,
                     <<"Invalid price levels. Must be between 2 and 5.">>, FALSE, <<>>)
            /\ UNCHANGED configs
     ELSE IF shelfId # TheShelf
       THEN /\ Reply("config.save", ConfigRequest(shelfId, priceLevels), TRUE, 404,
                     <<"Shelf not found">>, FALSE, <<>>)
            /\ UNCHANGED configs
     ELSE IF Len(shelfProducts) = 0
       THEN /\ Reply("config.save", ConfigRequest(shelfId, priceLevels), TRUE, 400,
                     <<"Shelf must have at least one product to configure conjoint analysis">>,
                     FALSE, <<>>)
            /\ UNCHANGED configs
     ELSE LET config == ConfigRow(priceLevels, Len(shelfProducts))
          IN /\ Len(configs) < MaxConfigs
             /\ configs' = Append(configs, config)
             /\ Reply("config.save", ConfigRequest(shelfId, priceLevels), TRUE, 200, <<>>,
                      TRUE, <<config>>)
  /\ UNCHANGED <<authVars, questions, shelfQuestions, products, shelfProducts,
                 shelfPersonas, surveyVars, page, calc>>

\* ------------------------------------------------------------- simulation
\* What GPT-4o answers to the prompts of one run; the number in an answer is
\* what response.match(/\d+/) finds, Null when it finds none.
Strategies == {"none", "first", "varying"}
ReplyOf(strategy, personaIndex, combinationIndex, n) ==
  CASE strategy = "none" -> Null
    [] strategy = "first" -> 1
    [] OTHER -> (personaIndex + combinationIndex) % (n + 2)

\* getPersonaPreference, from the reply on: the id of the product at the
\* answered position of the lineup, or null.
getPersonaPreference(lineup, reply) ==
  IF reply = Null THEN Null
  ELSE LET selectedIndex == reply - 1
       IN IF selectedIndex < 0 \/ selectedIndex >= Len(lineup)
            THEN Null
            ELSE lineup[selectedIndex + 1].id

SyntheticRespondent(id, personaId) ==
  [id |-> id, type |-> "SYNTHETIC", personaId |-> personaId, demographics |-> FALSE]

\* combination.find(p => p.id === selectedProductId).currentPrice
PriceIn(combination, productId) ==
  combination[CHOOSE i \in 1..Len(combination) :
                /\ combination[i].id = productId
                /\ \A j \in 1..(i - 1) : combination[j].id # productId].currentPrice

\* The persona loop: every persona row of the shelf is put every combination of
\* the matrix, in order; respondent ids follow the rows already in the table.
AskPersonas(conjointMatrix, strategy) ==
  Flatten([pi \in 1..Len(shelfPersonas) |->
    [ci \in 1..Len(conjointMatrix) |->
      [respondentId |-> Len(respondents) + pi,
       lineup |-> conjointMatrix[ci],
       selectedProductId |->
         getPersonaPreference(conjointMatrix[ci],
           ReplyOf(strategy, pi, ci, Len(conjointMatrix[ci])))]]])

\* simulationResults: one entry per product id of the shelf, counting the
\* selections of that id and adding up the prices they were selected at.
SimulationResults(answered) ==
  LET keys == SelectSeq(products, LAMBDA pr : pr.id \in Range(shelfProducts))
  IN [k \in 1..Len(keys) |->
       LET mine == SelectSeq(answered, LAMBDA a : a.selectedProductId = keys[k].id)
       IN [id |-> keys[k].id,
           selections |-> Len(mine),
           priceSum |-> SumSeq([j \in 1..Len(mine) |-> PriceIn(mine[j].lineup, keys[k].id)])]]

RunRequest(shelfId, runName) == [shelfId |-> shelfId, runName |-> runName]

\* POST /api/shelves/:id/run-survey
RunSurvey(cookie, shelfId, runName, strategy) ==
  /\ IF ReqUser(cookie) = NoUser
       THEN /\ Reply("survey.run", RunRequest(shelfId, runName), FALSE, 401,
                     <<"Unauthorized">>, FALSE, <<>>)
            /\ UNCHANGED surveyVars
     ELSE IF runName = ""
       THEN /\ Reply("survey.run", RunRequest(shelfId, runName), TRUE, 400,
                     <<"Run name is required">>, FALSE, <<>>)
            /\ UNCHANGED surveyVars
     ELSE IF shelfId # TheShelf
       THEN /\ Reply("survey.run", RunRequest(shelfId, runName), TRUE, 404,
                     <<"Shelf not found">>, FALSE, <<>>)
            /\ UNCHANGED surveyVars
     ELSE IF ShelfOwner # ReqUser(cookie)
       THEN /\ Reply("survey.run", RunRequest(shelfId, runName), TRUE, 403,
                     <<"Unauthorized">>, FALSE, <<>>)
            /\ UNCHANGED surveyVars
     ELSE \E config \in ConfigChoices :
          \E conjointMatrix \in
               {generateConjointMatrix(ShelfProductsData, PriceLevelsOf(config))} :
          \E asked \in {AskPersonas(conjointMatrix, strategy)} :
          \E answered \in {SelectSeq(asked, LAMBDA a : a.selectedProductId # Null)} :
          \E simulationResults \in {SimulationResults(answered)} :
          LET productsData == ShelfProductsData
              variantId == Len(variants) + 1
              created == [pi \in 1..Len(shelfPersonas) |->
                           SyntheticRespondent(Len(respondents) + pi, shelfPersonas[pi])]
              totalSelections ==
                SumSeq([k \in 1..Len(simulationResults) |->
                          simulationResults[k].selections])
              resultOf(id) ==
                simulationResults[CHOOSE k \in 1..Len(simulationResults) :
                                    simulationResults[k].id = id]
              results == [i \in 1..Len(productsData) |->
                 [productId |-> productsData[i].id,
                  optimalPrice |->
                    IF resultOf(productsData[i].id).selections > 0
                      THEN [num |-> resultOf(productsData[i].id).priceSum,
                            den |-> resultOf(productsData[i].id).selections]
                      ELSE [num |-> productsData[i].listPrice, den |-> 1],
                  preferenceShare |->
                    IF totalSelections > 0
                      THEN [num |-> resultOf(productsData[i].id).selections,
                            den |-> totalSelections]
                      ELSE [num |-> 1, den |-> Len(productsData)]]]
          IN /\ Len(variants) < MaxVariants
             /\ variants' = Append(variants,
                   [id |-> variantId, shelfId |-> shelfId,
                    productLineup |-> [i \in 1..Len(productsData) |->
                       [productId |-> productsData[i].id,
                        price |-> productsData[i].listPrice]]])
             /\ respondents' = respondents \o created
             /\ responses' = responses \o
                   [k \in 1..Len(answered) |->
                     [respondentId |-> answered[k].respondentId,
                      shelfVariantId |-> variantId,
                      selectedProductId |-> answered[k].selectedProductId]]
             /\ sim' = [ran |-> TRUE, variantId |-> variantId, config |-> config,
                        priceLevels |-> PriceLevelsOf(config),
                        productRows |-> shelfProducts, personaRows |-> shelfPersonas,
                        matrixSize |-> Len(conjointMatrix),
                        lineups |-> {asked[k].lineup : k \in 1..Len(asked)},
                        created |-> created]
             /\ Reply("survey.run", RunRequest(shelfId, runName), TRUE, 200, <<>>, TRUE,
                      <<[products |-> results, variantId |-> variantId]>>)
  /\ UNCHANGED <<authVars, questions, shelfQuestions, shelfVars, page, calc>>

\* ------------------------------------------------------------ the catalogue
CatalogProduct(i) ==
  [id |-> i,
   listPrice |-> 200 + 51 * i,
   lowPrice |-> IF i % 2 = 1 THEN 150 + i ELSE Null,
   highPrice |-> IF i % 2 = 1 THEN 300 + 7 * i ELSE Null]
Catalog(n) == [i \in 1..n |-> CatalogProduct(i)]

\* The seeded administrator (db seed): an ACTIVE user with a hashed password.
SeedUsers == <<[id |-> 1, username |-> AdminName, password |-> Hash(AdminPassword),
                status |-> "ACTIVE"]>>

\* ---------------------------------------------- Spec: accounts and sessions
InitTables ==
  /\ users = SeedUsers
  /\ session = NoUser
  /\ questions = <<>>
  /\ shelfQuestions = <<>>
  /\ configs = <<>>
  /\ variants = <<>>
  /\ respondents = <<>>
  /\ responses = <<>>
  /\ sim = NoSim
  /\ resp = NoResponse
  /\ page = NoPage
  /\ calc = NoCalc

Init ==
  /\ InitTables
  /\ products = Catalog(MaxProducts)
  /\ shelfProducts = [i \in 1..MaxProducts |-> i]
  /\ shelfPersonas = [i \in 1..MaxPersonas |-> i]

Next ==
  \/ \E cookie \in BOOLEAN, u \in Usernames, p \in Passwords : Register(cookie, u, p)
  \/ \E cookie \in BOOLEAN, u \in Usernames, p \in Passwords : Login(cookie, u, p)
  \/ \E cookie \in BOOLEAN : Logout(cookie)
  \/ \E cookie \in BOOLEAN : GetUser(cookie)
  \/ \E cookie \in BOOLEAN : GetUsers(cookie)
  \/ \E cookie \in BOOLEAN, u \in Usernames : CreateUser(cookie, u)
  \/ \E cookie \in BOOLEAN, id \in 1..MaxUsers : SuspendUser(cookie, id)

Spec == Init /\ [][Next]_vars

\* The credential check of a login request fails: passport finds no user of
\* that name, or the supplied password does not hash to the stored one.
CredentialCheckFails(u, p) ==
  \/ UsersNamed(u) = {}
  \/ Compare(p, users[FirstUserNamed(u)].password) = "mismatch"

\* C10: a login request that passes validation but fails the credential check
\* is answered 400 with 'Incorrect email.' when no user has the username and
\* 'Incorrect password.' when the password does not match, and the session
\* stays as it was.
LoginFailureIs400Incorrect ==
  [][(/\ resp'.op = "login"
      /\ IsEmail(resp'.req.u) /\ LongEnough(resp'.req.p)
      /\ CredentialCheckFails(resp'.req.u, resp'.req.p))
     => (/\ resp'.status = 400
         /\ resp'.body = <<IF UsersNamed(resp'.req.u) = {}
                              THEN "Incorrect email." ELSE "Incorrect password.">>
         /\ session' = session)]_vars

\* C11 (as amended): duplicate usernames are not allowed.  Every POST
\* /api/register whose username is already in the users table is answered 400
\* and changes neither the users table nor the session; its body is 'Email
\* already exists' when the request passes insertUserSchema, and the schema's
\* validation message otherwise, because the schema is checked first.  The
\* users table never holds two users with one username.
DuplicateUsernameRejected ==
  [][/\ (/\ resp'.op = "register"
         /\ \E i \in 1..Len(users) : users[i].username = resp'.req.u)
        => /\ resp'.status = 400
           /\ resp'.body =
                IF IsEmail(resp'.req.u) /\ LongEnough(resp'.req.p)
                  THEN <<"Email already exists">>
                  ELSE ValidationMessage(resp'.req.u, resp'.req.p,
                                         "Please enter a valid email address")
           /\ users' = users
           /\ session' = session
     /\ \A i \in 1..Len(users') : \A j \in 1..Len(users') :
          users'[i].username = users'[j].username => i = j]_vars

\* C11 (as stated): every POST /api/register with a username that is already
\* registered is answered 400 with body 'Email already exists', and the users
\* table still holds exactly one user with that username.
EveryDuplicateAnswersEmailExists ==
  [][(/\ resp'.op = "register"
      /\ IsEmail(resp'.req.u)
      /\ \E i \in 1..Len(users) : users[i].username = resp'.req.u)
     => /\ resp'.status = 400
        /\ resp'.body = <<"Email already exists">>
        /\ Cardinality({i \in 1..Len(users') :
                          users'[i].username = resp'.req.u}) = 1]_vars

\* A second registration of a registered username was rejected.
DuplicateRegistrationSeen ==
  /\ resp.op = "register" /\ resp.status = 400
  /\ resp.body = <<"Email already exists">>
  /\ resp.req.u = OtherName
  /\ Cardinality({i \in 1..Len(users) : users[i].username = OtherName
                                          /\ users[i].status = "ACTIVE"}) = 1

\* C12: a successful registration answers 200 'Registration successful' with a
\* user object carrying the registered username, and the user objects of a
\* successful registration, login and GET /api/user have no password field.
UserObjectsHaveNoPassword ==
  (resp.op \in {"register", "login", "user"} /\ resp.status = 200) =>
    /\ Len(resp.data) = 1
    /\ "password" \notin DOMAIN resp.data[1]
    /\ "username" \in DOMAIN resp.data[1]
    /\ resp.op = "register" =>
         /\ resp.body = <<"Registration successful">>
         /\ resp.data[1].username = resp.req.u
    /\ resp.op = "login" => resp.data[1].username = resp.req.u

\* A registered user has read its own user object.
RegisteredUserReadItself ==
  /\ resp.op = "user" /\ resp.status = 200
  /\ resp.data[1].username = OtherName
  /\ users[session].password = Hash(WrongPassword)

\* C13: GET /api/user without an authenticated session is answered 401
\* 'Not logged in'; a logout of the session leaves it without a user, and only
\* a successful login or registration gives it one again.
LoggedOutMeansNotLoggedIn ==
  [][/\ (resp'.op = "user" /\ (~resp'.req.cookie \/ session = NoUser))
        => /\ resp'.status = 401
           /\ resp'.body = <<"Not logged in">>
           /\ resp'.data = <<>>
     /\ (resp'.op = "logout" /\ resp'.req.cookie)
        => (resp'.status = 200 /\ session' = NoUser)
     /\ (session = NoUser /\ session' # NoUser)
        => (resp'.op \in {"login", "register"} /\ resp'.status = 200)]_vars

\* The session's cookie was presented after a registered user's session had
\* lost its user.
NotLoggedInWithCookie ==
  /\ resp.op = "user" /\ resp.req.cookie
  /\ resp.status = 401
  /\ session = NoUser
  /\ \E i \in 2..Len(users) : users[i].password # EmptyPassword

\* ------------------------------- SpecApi: the Marketer and consumer routes
QuestionTexts == {"Age?", "Income?"}
PanelistTypes == {"synthetic", "human", "other"}
ShelfIds == {TheShelf, NoShelf}
SurveyIds == 1..(MaxVariants + 1)
RandomDraws == 0..1
\* selections of a submission: none, a product id, a value that is no product id
SelectionInputs == {<<>>, <<1>>, <<Null>>}

NextApi ==
  \/ \E cookie \in BOOLEAN, u \in Usernames, p \in Passwords : Login(cookie, u, p)
  \/ \E cookie \in BOOLEAN : Logout(cookie)
  \/ \E cookie \in BOOLEAN : GetUsers(cookie)
  \/ \E cookie \in BOOLEAN, u \in Usernames : CreateUser(cookie, u)
  \/ \E cookie \in BOOLEAN : GetQuestions(cookie)
  \/ \E cookie \in BOOLEAN, text \in QuestionTexts : CreateQuestion(cookie, text)
  \/ \E cookie \in BOOLEAN : GetShelves(cookie)
  \/ \E cookie \in BOOLEAN : GetProducts(cookie)
  \/ \E cookie \in BOOLEAN, type \in PanelistTypes : GetPanelists(cookie, type)
  \/ \E cookie \in BOOLEAN, shelfId \in ShelfIds : CreateSurvey(cookie, shelfId)
  \/ \E cookie \in BOOLEAN, surveyId \in SurveyIds, turn \in RandomDraws, pick \in RandomDraws :
        GetSurvey(cookie, surveyId, turn, pick)
  \/ \E cookie \in BOOLEAN, surveyId \in SurveyIds, hasDemographics \in BOOLEAN,
        selections \in SelectionInputs :
        SubmitSurvey(cookie, surveyId, hasDemographics, selections)
  \/ \E cookie \in BOOLEAN : GetSurveyRuns(cookie)
  \/ \E cookie \in BOOLEAN, runId \in SurveyIds : GetRunAnalysis(cookie, runId)
  \/ \E cookie \in BOOLEAN, runId \in SurveyIds : GetRunDetails(cookie, runId)

SpecApi == Init /\ [][NextApi]_vars

\* The responses of the Marketer interfaces: users, shelves, products, personas,
\* questions, survey runs, run analysis and run details.
MarketerOps ==
  {"users.list", "users.create", "shelves.list", "products.list", "personas.list",
   "questions.list", "questions.create", "survey.create",
   "runs.list", "runs.analysis", "runs.details"}

\* C1: every Marketer interface answers a request without an authenticated
\* session with 401, returns no data and leaves every table as it was.
SessionlessMarketerRequestIs401 ==
  [][(resp'.op \in MarketerOps /\ ~resp'.authed)
     => (/\ resp'.status = 401
         /\ ~resp'.json /\ resp'.data = <<>>
         /\ dbVars' = dbVars)]_vars

\* ------------------- SpecConsumer: the consumer's survey and who can see it
NextConsumer ==
  \/ \E cookie \in BOOLEAN, u \in Usernames, p \in Passwords : Login(cookie, u, p)
  \/ \E cookie \in BOOLEAN : Logout(cookie)
  \/ \E cookie \in BOOLEAN, shelfId \in ShelfIds : CreateSurvey(cookie, shelfId)
  \/ \E cookie \in BOOLEAN, surveyId \in SurveyIds, turn \in RandomDraws, pick \in RandomDraws :
        GetSurvey(cookie, surveyId, turn, pick)
  \/ \E cookie \in BOOLEAN, surveyId \in SurveyIds, hasDemographics \in BOOLEAN,
        selections \in SelectionInputs :
        SubmitSurvey(cookie, surveyId, hasDemographics, selections)
  \/ \E cookie \in BOOLEAN, type \in PanelistTypes : GetPanelists(cookie, type)
  \/ \E cookie \in BOOLEAN, runId \in SurveyIds : GetRunDetails(cookie, runId)

SpecConsumer == Init /\ [][NextConsumer]_vars

NextQuestions ==
  \/ \E cookie \in BOOLEAN, u \in Usernames, p \in Passwords : Login(cookie, u, p)
  \/ \E cookie \in BOOLEAN : Logout(cookie)
  \/ \E cookie \in BOOLEAN : GetQuestions(cookie)
  \/ \E cookie \in BOOLEAN, text \in QuestionTexts : CreateQuestion(cookie, text)
  \/ \E cookie \in BOOLEAN, id \in 1..MaxQuestions, text \in QuestionTexts :
        UpdateQuestion(cookie, id, text)
  \/ \E cookie \in BOOLEAN, id \in 1..(MaxQuestions + 1) : DeleteQuestion(cookie, id)
  \/ \E id \in 1..MaxQuestions : LinkShelfQuestion(id)
  \/ \E cookie \in BOOLEAN, shelfId \in ShelfIds : CreateSurvey(cookie, shelfId)
  \/ \E cookie \in BOOLEAN, surveyId \in SurveyIds, turn \in RandomDraws, pick \in RandomDraws :
        GetSurvey(cookie, surveyId, turn, pick)

SpecQuestions == Init /\ [][NextQuestions]_vars

\* C9: deleting a question sets its status to DELETED and keeps the row, and a
\* question that is DELETED is in no questions list served (the list the
\* question bank and the persona demographics editor read) and among the
\* questions of no survey served to a respondent.
DeletedQuestionIsHidden ==
  [][/\ (resp'.op = "questions.delete" /\ resp'.status = 200)
        => /\ Len(questions') = Len(questions)
           /\ questions'[resp'.req.id].status = "DELETED"
     /\ (resp'.op = "questions.list" /\ resp'.status = 200)
        => \A i \in 1..Len(resp'.data) :
             questions[resp'.data[i].id].status # "DELETED"
     /\ (resp'.op = "survey.get" /\ resp'.status = 200)
        => \A i \in 1..Len(resp'.data[1].questions) :
             resp'.data[1].questions[i].kind = "shelf"
               => questions[resp'.data[1].questions[i].id].status # "DELETED"]_vars

\* --------------------- SpecShelf: configuring and simulating a shelf's survey
\* POST /api/shelves/:id/products and /personas replace the shelf's rows by one
\* row per id of the request, whatever the ids.
ProductLinkInputs ==
  {[i \in 1..k |-> i] : k \in 0..MaxProducts} \cup {<<1, 1>>, <<MaxProducts, 1>>}
PersonaLinkInputs ==
  {[i \in 1..k |-> i] : k \in 0..MaxPersonas} \cup {<<1, 1>>}

InitShelf ==
  /\ InitTables
  /\ products = Catalog(MaxProducts)
  /\ shelfProducts \in ProductLinkInputs
  /\ shelfPersonas \in PersonaLinkInputs

PriceLevelInputs == (MinPriceLevels - 1)..(MaxPriceLevels + 1)
RunNames == {"", "run"}

NextShelf ==
  \/ \E cookie \in BOOLEAN : Login(cookie, AdminName, AdminPassword)
  \/ \E cookie \in BOOLEAN : Logout(cookie)
  \/ \E cookie \in BOOLEAN, shelfId \in ShelfIds, priceLevels \in PriceLevelInputs :
        SaveConjointConfiguration(cookie, shelfId, priceLevels)
  \/ \E cookie \in BOOLEAN, shelfId \in ShelfIds, runName \in RunNames,
        strategy \in Strategies :
        RunSurvey(cookie, shelfId, runName, strategy)
  \/ \E cookie \in BOOLEAN, runId \in SurveyIds : GetRunDetails(cookie, runId)

SpecShelf == InitShelf /\ [][NextShelf]_vars

\* ------------------------------- SpecSimulation: runs over configured shelves
\* a shelf as the configuration pages leave it: product rows, persona rows and
\* at most one saved conjoint configuration
SavedConfigInputs(productCount) ==
  {<<>>} \cup (IF productCount = 0 THEN {}
              ELSE {<<ConfigRow(l, productCount)>> : l \in MinPriceLevels..MaxPriceLevels})

InitSimulation ==
  /\ users = SeedUsers
  /\ session = NoUser
  /\ questions = <<>>
  /\ shelfQuestions = <<>>
  /\ products = Catalog(MaxProducts)
  /\ shelfProducts \in ProductLinkInputs
  /\ shelfPersonas \in PersonaLinkInputs
  /\ configs \in SavedConfigInputs(Len(shelfProducts))
  /\ variants = <<>>
  /\ respondents = <<>>
  /\ responses = <<>>
  /\ sim = NoSim
  /\ resp = NoResponse
  /\ page = NoPage
  /\ calc = NoCalc

NextSimulation ==
  \/ \E cookie \in BOOLEAN : Login(cookie, AdminName, AdminPassword)
  \/ \E cookie \in BOOLEAN : Logout(cookie)
  \/ \E cookie \in BOOLEAN, shelfId \in ShelfIds, runName \in RunNames,
        strategy \in Strategies :
        RunSurvey(cookie, shelfId, runName, strategy)

SpecSimulation == InitSimulation /\ [][NextSimulation]_vars

Count(seq, x) == Cardinality({i \in 1..Len(seq) : seq[i] = x})
LineupIds(lineup) == [i \in 1..Len(lineup) |-> lineup[i].id]

CombinationCountIsMatrixSize ==
  (sim.ran /\ sim.config # NoConfig) =>
    /\ sim.config.combinationCount = sim.matrixSize
    /\ DisplayedCombinationCount(sim.config.priceLevels, Len(sim.productRows))
         = sim.matrixSize

\* The full factorial design of a shelf: one combination for every choice of a
\* price point for every product row.
RECURSIVE FullFactorialSize(_, _)
FullFactorialSize(productRows, priceLevels) ==
  IF productRows = <<>> THEN 1
  ELSE Len(generatePriceMatrix(ProductById(Head(productRows)), priceLevels))
         * FullFactorialSize(Tail(productRows), priceLevels)

\* C5: for a shelf of two or more products the run generates strictly fewer
\* combinations than the full factorial design has.
GeneratedIsFractional ==
  (sim.ran /\ Len(sim.productRows) >= 2) =>
    sim.matrixSize < FullFactorialSize(sim.productRows, sim.priceLevels)

\* -------------------------------------- SpecLineup: shelves of many products
LargeShelfInputs == {[i \in 1..k |-> i] : k \in 1..BigProducts}

InitLineup ==
  /\ users = SeedUsers
  /\ session = NoUser
  /\ questions = <<>>
  /\ shelfQuestions = <<>>
  /\ products = Catalog(BigProducts)
  /\ shelfProducts \in LargeShelfInputs
  /\ shelfPersonas = <<1>>
  /\ configs = <<ConfigRow(MinPriceLevels, Len(shelfProducts))>>
  /\ variants = <<>>
  /\ respondents = <<>>
  /\ responses = <<>>
  /\ sim = NoSim
  /\ resp = NoResponse
  /\ page = NoPage
  /\ calc = NoCalc

NextLineup ==
  \/ \E cookie \in BOOLEAN : Login(cookie, AdminName, AdminPassword)
  \/ \E cookie \in BOOLEAN : Logout(cookie)
  \/ \E cookie \in BOOLEAN, shelfId \in ShelfIds : CreateSurvey(cookie, shelfId)
  \/ \E cookie \in BOOLEAN, surveyId \in SurveyIds, turn \in RandomDraws, pick \in RandomDraws :
        GetSurvey(cookie, surveyId, turn, pick)
  \/ \E cookie \in BOOLEAN, shelfId \in ShelfIds, runName \in RunNames,
        strategy \in Strategies :
        RunSurvey(cookie, shelfId, runName, strategy)

SpecLineup == InitLineup /\ [][NextLineup]_vars

\* C6: no lineup of a survey served to a human consumer and no lineup put to a
\* simulated persona holds more than 6 products.
NoLineupExceedsSix ==
  /\ (resp.op = "survey.get" /\ resp.status = 200) =>
       \A i \in 1..Len(resp.data[1].productCombinations) :
         Len(resp.data[1].productCombinations[i].options) <= MaxProductsToShow
  /\ sim.ran => (\A lineup \in sim.lineups : Len(lineup) <= MaxProductsToShow)

\* ------------------------------------- SpecPrice: the price points of a product
\* products.lowPrice and highPrice are both unset or, through
\* POST /api/products/:id/price-config, both set with lowPrice < highPrice.
PriceRangeInputs ==
  {<<Null, Null>>} \cup
    {r \in (1..MaxPrice) \X (1..MaxPrice) : r[1] < r[2]}

CalculatePrices(listPrice, range, priceLevels) ==
  LET product == [id |-> 1, listPrice |-> listPrice, lowPrice |-> range[1],
                  highPrice |-> range[2]]
  IN /\ calc' = [done |-> TRUE, product |-> product, priceLevels |-> priceLevels,
                 prices |-> generatePriceMatrix(product, priceLevels)]
     /\ UNCHANGED <<users, session, questions, shelfQuestions, shelfVars, surveyVars,
                    resp, page>>

NextPrice ==
  \E listPrice \in 1..MaxPrice, range \in PriceRangeInputs, priceLevels \in PriceLevelInputs :
    CalculatePrices(listPrice, range, priceLevels)

SpecPrice == Init /\ [][NextPrice]_vars

\* C3: for a configured number of price levels L, 2 <= L <= 5, the price matrix
\* of a product has exactly L points, the first the product's low price and the
\* last its high price, and no matrix has more than 5 points.
PriceMatrixHasLevelsPoints ==
  calc.done =>
    /\ Len(calc.prices) <= MaxPriceLevels
    /\ (calc.priceLevels \in MinPriceLevels..MaxPriceLevels) =>
         (/\ Len(calc.prices) = calc.priceLevels
          /\ calc.prices[1] = LowPriceOf(calc.product)
          /\ calc.prices[Len(calc.prices)] = HighPriceOf(calc.product))

\* -------------------------------------------- SpecPage: the consumer's page
\* A question of the fetched survey: whether the page renders an input for it
\* depends on its type and on its having options.
QuestionKinds ==
  {[type |-> "SINGLE", options |-> TRUE], [type |-> "SINGLE", options |-> FALSE],
   [type |-> "TEXT", options |-> FALSE]}

\* The surveys GET /api/survey/:id serves: some questions, and for a lineup of
\* n products numCombinations(n) combinations of numProductsToShow(n) options.
SurveyInputs ==
  {[questions |-> qs, combinations |-> numCombinations(n),
    options |-> numProductsToShow(n)] :
     qs \in UNION {[1..k -> QuestionKinds] : k \in 0..MaxSurveyQuestions},
     n \in 1..MaxProducts}

totalSteps(p) == Len(p.survey.questions) + p.survey.combinations

\* currentQuestion: the index of the question on screen, 0 for none
currentQuestion(p) ==
  IF p.currentStep < Len(p.survey.questions) THEN p.currentStep + 1 ELSE 0

\* currentCombination: the index of the lineup on screen, 0 for none
currentCombination(p) ==
  IF /\ p.currentStep >= Len(p.survey.questions)
     /\ p.currentStep - Len(p.survey.questions) < p.survey.combinations
    THEN p.currentStep - Len(p.survey.questions) + 1
    ELSE 0

\* What the render of state p puts on screen.
Screen(p) ==
  IF currentQuestion(p) # 0 THEN [kind |-> "question", index |-> currentQuestion(p)]
  ELSE IF currentCombination(p) # 0
    THEN [kind |-> "lineup", index |-> currentCombination(p)]
  ELSE [kind |-> "thanks", index |-> 0]

\* The page renders an input for the question on screen.
HasInput(q) == q.type = "TEXT" \/ q.options

\* { ...prev.answers, [questionId]: answer }
AnswersWithout(answers, questionId) == answers
AnswersWith(answers, questionId) == answers \cup {questionId}

Rendered(p) == [p EXCEPT !.seen = Append(p.seen, Screen(p))]

\* useQuery resolves: the first render of the survey
LoadSurvey(survey) ==
  /\ ~page.loaded
  /\ page' = Rendered([loaded |-> TRUE, survey |-> survey, currentStep |-> 0,
                       answers |-> {}, productSelections |-> <<>>,
                       submitted |-> <<>>, seen |-> <<>>])
  /\ UNCHANGED <<users, session, questions, shelfQuestions, shelfVars, surveyVars,
                 resp, calc>>

\* handleAnswer, from the input of the question on screen
HandleAnswer ==
  /\ page.loaded
  /\ currentQuestion(page) # 0
  /\ HasInput(page.survey.questions[currentQuestion(page)])
  /\ page' = Rendered([page EXCEPT
                !.answers = AnswersWith(page.answers, currentQuestion(page)),
                !.currentStep = page.currentStep + 1])
  /\ UNCHANGED <<users, session, questions, shelfQuestions, shelfVars, surveyVars,
                 resp, calc>>

\* handleProductSelect, from an option of the lineup on screen (variantId its
\* position) or from "I don't like any of these options" (Null); the last
\* step posts the answers and selections.
HandleProductSelect(variantId) ==
  /\ page.loaded
  /\ currentCombination(page) # 0
  /\ variantId \in {Null} \cup 1..page.survey.options
  /\ LET newSelections == Append(page.productSelections, variantId)
     IN page' = Rendered([page EXCEPT
                  !.currentStep = page.currentStep + 1,
                  !.productSelections = newSelections,
                  !.submitted =
                     IF page.currentStep = totalSteps(page) - 1
                       THEN <<[demographics |-> page.answers,
                               selections |-> newSelections]>>
                       ELSE page.submitted])
  /\ UNCHANGED <<users, session, questions, shelfQuestions, shelfVars, surveyVars,
                 resp, calc>>

VariantInputs == {Null, 1}

NextPage ==
  \/ \E survey \in SurveyInputs : LoadSurvey(survey)
  \/ HandleAnswer
  \/ \E variantId \in VariantInputs : HandleProductSelect(variantId)

SpecPage == Init /\ [][NextPage]_vars

\* C7: on the survey page every question step comes before the first lineup,
\* and while a lineup is on screen every question of the survey has an answer.
QuestionsBeforeLineups ==
  page.loaded =>
    /\ \A i \in 1..Len(page.seen) : \A j \in 1..Len(page.seen) :
         (page.seen[i].kind = "lineup" /\ page.seen[j].kind = "question") => j < i
    /\ Screen(page).kind = "lineup" =>
         (\A q \in 1..Len(page.survey.questions) : q \in page.answers)

\* Two questions were answered and a lineup after them was answered too.
AnsweredThenChose ==
  /\ page.loaded
  /\ Len(page.survey.questions) = 2
  /\ page.answers = {1, 2}
  /\ page.productSelections # <<>>
  /\ Screen(page).kind = "lineup"

\* ------------- SpecDefaults: human survey and simulation of one shelf
\* The shelf is as the configuration pages leave it, with or without a saved
\* conjoint configuration; a survey of it is created by create-survey or by a
\* run, and is then served to respondents.
NextDefaults ==
  \/ \E cookie \in BOOLEAN : Login(cookie, AdminName, AdminPassword)
  \/ \E cookie \in BOOLEAN : CreateSurvey(cookie, TheShelf)
  \/ \E surveyId \in SurveyIds, turn \in RandomDraws, pick \in RandomDraws :
        GetSurvey(FALSE, surveyId, turn, pick)
  \/ \E cookie \in BOOLEAN, strategy \in {"none", "varying"} :
        RunSurvey(cookie, TheShelf, "run", strategy)

SpecDefaults == InitSimulation /\ [][NextDefaults]_vars

\* The three default prices of a product: low, list and high.
LowListHigh(product) ==
  {LowPriceOf(product), product.listPrice, HighPriceOf(product)}

\* C14: when the shelf has no saved conjoint configuration the number of price
\* levels is 3: every price the human survey offers for a product is its low,
\* list or high price, and a simulation run generates 3 prices per product
\* row, 3^n combinations for n rows, and puts each product row to the personas
\* at exactly its low, list and high price.
DefaultIsLowListHigh ==
  configs = <<>> =>
    /\ (resp.op = "survey.get" /\ resp.status = 200) =>
         \A c \in Range(resp.data[1].productCombinations) :
           \A o \in Range(c.options) :
             o.price \in LowListHigh(ProductById(o.productId))
    /\ sim.ran =>
         /\ sim.config = NoConfig
         /\ sim.priceLevels = DefaultPriceLevels
         /\ sim.matrixSize = Power(DefaultPriceLevels, Len(sim.productRows))
         /\ \A i \in 1..Len(sim.productRows) :
              sim.lineups # {} =>
                {lineup[i].currentPrice : lineup \in sim.lineups}
                  = LowListHigh(ProductById(sim.productRows[i]))

\* With no saved configuration, a run has put two products to a persona and
\* the survey of that run has then offered a product at its list price.
DefaultPricesServed ==
  /\ configs = <<>>
  /\ sim.ran /\ sim.productRows = <<1, 2>> /\ sim.lineups # {}
  /\ resp.op = "survey.get" /\ resp.status = 200
  /\ \E c \in Range(resp.data[1].productCombinations) :
       \E o \in Range(c.options) : o.price = ProductById(o.productId).listPrice

\* --------------------- SpecProducts: product prices, in dollars and cents
\* Dollar amounts a user enters, in thousandths: $0, $0.995, $1.00, $19.90.
PriceEntries == {0, 995, 1000, 19900}
PriceConfigForms ==
  [lowPrice : PriceEntries, highPrice : PriceEntries,
   priceLevels : {MinPriceLevels, MaxPriceLevels}]

InitProducts ==
  /\ InitTables
  /\ products = <<>>
  /\ shelfProducts = <<>>
  /\ shelfPersonas = <<>>

NextProducts ==
  \/ \E cookie \in BOOLEAN : Login(cookie, AdminName, AdminPassword)
  \/ \E cookie \in BOOLEAN, listPrice \in PriceEntries : CreateProduct(cookie, listPrice)
  \/ \E cookie \in BOOLEAN, productId \in 1..MaxProducts, form \in PriceConfigForms :
        SubmitPriceConfig(cookie, productId, form)
  \/ \E cookie \in BOOLEAN : GetProducts(cookie)

SpecProducts == InitProducts /\ [][NextProducts]_vars

\* An amount of whole cents, as the forms' step of 0.01 gives.
WholeCents(d) == d % 10 = 0

\* C15: a price entered as d dollars is persisted as round(100 * d) cents by
\* product creation and by the price-configuration dialog, the answer of
\* either gives it back as d dollars when d is a whole number of cents, and
\* GET /api/products gives every stored price back as cents / 100 dollars.
PricesStoredInCents ==
  /\ (resp.op = "products.create" /\ resp.status = 200) =>
       /\ products[resp.data[1].id].listPrice = RoundTimes100(resp.req.listPrice)
       /\ WholeCents(resp.req.listPrice) => resp.data[1].listPrice = resp.req.listPrice
  /\ (resp.op = "products.priceConfig" /\ resp.status = 200) =>
       /\ products[resp.req.productId].lowPrice
            = RoundTimes100(page.priceConfigForm.lowPrice)
       /\ products[resp.req.productId].highPrice
            = RoundTimes100(page.priceConfigForm.highPrice)
       /\ WholeCents(page.priceConfigForm.lowPrice) =>
            resp.data[1].lowPrice = page.priceConfigForm.lowPrice
       /\ WholeCents(page.priceConfigForm.highPrice) =>
            resp.data[1].highPrice = page.priceConfigForm.highPrice
  /\ (resp.op = "products.list" /\ resp.status = 200) =>
       \A i \in 1..Len(products) :
         /\ resp.data[i].listPrice = Over100(products[i].listPrice)
         /\ ~Falsy(products[i].lowPrice) =>
              resp.data[i].lowPrice = Over100(products[i].lowPrice)

\* ------------------------------------------------ preference shares of a run
\* Shares are fractions [num, den]; the sum of the fractions of `shares` is 1
\* when the cross-multiplied numerators add up to the product of the
\* denominators.
RECURSIVE DenProduct(_, _)
DenProduct(shares, skip) ==
  IF shares = <<>> THEN 1
  ELSE (IF skip = 1 THEN 1 ELSE shares[1].den) * DenProduct(Tail(shares), skip - 1)

SharesSumToOne(shares) ==
  SumSeq([i \in 1..Len(shares) |-> shares[i].num * DenProduct(shares, i)])
    = DenProduct(shares, 0)

\* C16: in the result of a run over a shelf with at least one product every
\* preferenceShare lies in [0, 1], the shares of the returned products sum to
\* 1, and when the run recorded no selection every product's share is
\* 1 / (number of products).
PreferenceSharesSumToOne ==
  (resp.op = "survey.run" /\ resp.status = 200 /\ Len(sim.productRows) >= 1) =>
    LET results == resp.data[1].products
        shares == [i \in 1..Len(results) |-> results[i].preferenceShare]
    IN /\ Len(results) = Len(sim.productRows)
       /\ \A i \in 1..Len(shares) :
            /\ shares[i].den > 0
            /\ 0 <= shares[i].num /\ shares[i].num <= shares[i].den
       /\ SharesSumToOne(shares)
       /\ (\A k \in 1..Len(responses) : responses[k].shelfVariantId # sim.variantId)
            => \A i \in 1..Len(shares) :
                  shares[i].num * Len(results) = shares[i].den

====
